---- MODULE Spec2Model ----
(***************************************************************************)
(* Model of the image redaction engine of scripts/anonymize_pdf.py:        *)
(* parse_name_map, _case_variants, _fuzzy_match, _ocr_image and the three   *)
(* passes of redact_image.                                                  *)
(*                                                                          *)
(* A Python str is a sequence of one-character strings, so that len, lower, *)
(* upper, title, strip, split and zip are computed and not assumed.  A      *)
(* Python dict is a sequence of <<key, value>> pairs in insertion order.    *)
(* Token indices are 1-based here (index i of the model is index i-1 of    *)
(* the Python lists).  The image is the list of draw calls made on it: a   *)
(* pixel changes only through a draw call.  The image arrives in RGB mode,  *)
(* as process_page_images passes it, and the fill colours of the draw calls *)
(* are not part of the state.                                               *)
(***************************************************************************)
EXTENDS Integers, Sequences, FiniteSets, TLC

VARIABLES
    name_map,      \* redact_image argument: dict orig -> repl
    extra_redact,  \* redact_image argument: list of strings
    engine,        \* "ok" or "missing": whether the tesseract binary exists
    layout,        \* how the words of the image are laid out on it
    pc,            \* position in redact_image
    data,          \* result of _ocr_image (parallel lists)
    lc_map,        \* lines 262-263
    extra_lc,      \* line 266
    used_indices,  \* line 269
    count,         \* line 259
    img,           \* draw calls made on the image so far
    spans,         \* one record per redaction, in the order they are made
    stderr,        \* lines printed to sys.stderr
    result,        \* the returned (image, count), or "none" before the return
    vocabulary,    \* the words the recognition engine can report on this run's images
    fm             \* a call of _fuzzy_match on its own: arguments and return value

vars == <<name_map, extra_redact, engine, layout, pc, data, lc_map, extra_lc,
          used_indices, count, img, spans, stderr, result, vocabulary, fm>>

-----------------------------------------------------------------------------
(* Strings *)

Lowers == <<"a","b","c","d","e","f","g","h","i","j","k","l","m",
            "n","o","p","q","r","s","t","u","v","w","x","y","z">>
Uppers == <<"A","B","C","D","E","F","G","H","I","J","K","L","M",
            "N","O","P","Q","R","S","T","U","V","W","X","Y","Z">>

IsUpper(c) == \E i \in DOMAIN Uppers : Uppers[i] = c
IsLower(c) == \E i \in DOMAIN Lowers : Lowers[i] = c
Letters == { Uppers[i] : i \in DOMAIN Uppers } \cup { Lowers[i] : i \in DOMAIN Lowers }

\* The lower-case and the upper-case form of every letter
LowerTable ==
    [c \in Letters |->
        IF IsUpper(c) THEN Lowers[CHOOSE i \in DOMAIN Uppers : Uppers[i] = c] ELSE c]
UpperTable ==
    [c \in Letters |->
        IF IsLower(c) THEN Uppers[CHOOSE i \in DOMAIN Lowers : Lowers[i] = c] ELSE c]

IsAlpha(c) == c \in Letters
LowerChar(c) == IF c \in Letters THEN LowerTable[c] ELSE c
UpperChar(c) == IF c \in Letters THEN UpperTable[c] ELSE c

\* str.lower(), str.upper()
Lower(s) == [i \in 1..Len(s) |-> LowerChar(s[i])]
Upper(s) == [i \in 1..Len(s) |-> UpperChar(s[i])]
\* str.title(): a letter is upper-cased after a non-letter, lower-cased after a letter
Title(s) ==
    [i \in 1..Len(s) |->
        IF i = 1 \/ ~IsAlpha(s[i-1]) THEN UpperChar(s[i]) ELSE LowerChar(s[i])]

RECURSIVE LStrip(_)
LStrip(s) == IF s # <<>> /\ Head(s) = " " THEN LStrip(Tail(s)) ELSE s
RECURSIVE RStrip(_)
RStrip(s) ==
    IF s # <<>> /\ s[Len(s)] = " " THEN RStrip(SubSeq(s, 1, Len(s) - 1)) ELSE s
\* str.strip()
Strip(s) == RStrip(LStrip(s))

\* str.split(): words separated by runs of whitespace
RECURSIVE SplitFrom(_, _, _)
SplitFrom(s, cur, acc) ==
    IF s = <<>> THEN (IF cur = <<>> THEN acc ELSE Append(acc, cur))
    ELSE IF Head(s) = " "
         THEN SplitFrom(Tail(s), <<>>, IF cur = <<>> THEN acc ELSE Append(acc, cur))
         ELSE SplitFrom(Tail(s), Append(cur, Head(s)), acc)
Split(s) == SplitFrom(s, <<>>, <<>>)

\* c in s
Contains(s, c) == \E i \in 1..Len(s) : s[i] = c

\* str.split(sep): pieces between separators, empty pieces kept
RECURSIVE SplitOnFrom(_, _, _, _)
SplitOnFrom(s, sep, cur, acc) ==
    IF s = <<>> THEN Append(acc, cur)
    ELSE IF Head(s) = sep
         THEN SplitOnFrom(Tail(s), sep, <<>>, Append(acc, cur))
         ELSE SplitOnFrom(Tail(s), sep, Append(cur, Head(s)), acc)
SplitOn(s, sep) == SplitOnFrom(s, sep, <<>>, <<>>)

\* str.split(sep, 1) of a string that contains sep: <<before, after>>
SplitOnce(s, sep) ==
    LET p == CHOOSE i \in 1..Len(s) :
                 s[i] = sep /\ \A j \in 1..(i - 1) : s[j] # sep
    IN  <<SubSeq(s, 1, p - 1), SubSeq(s, p + 1, Len(s))>>

Abs(n) == IF n < 0 THEN 0 - n ELSE n
Min2(a, b) == IF a <= b THEN a ELSE b

-----------------------------------------------------------------------------
(* Dicts as sequences of <<key, value>> pairs *)

HasKey(d, k) == \E i \in 1..Len(d) : d[i][1] = k
Get(d, k) == d[CHOOSE i \in 1..Len(d) : d[i][1] = k][2]
\* d[k] = v: an existing key keeps its position and takes the new value
DictSet(d, k, v) ==
    IF HasKey(d, k)
    THEN [i \in 1..Len(d) |-> IF d[i][1] = k THEN <<k, v>> ELSE d[i]]
    ELSE Append(d, <<k, v>>)

-----------------------------------------------------------------------------
(* Name-map parsing *)

\* The set of (orig, repl) pairs of _case_variants
CaseVariantSet(orig, repl) ==
    { <<orig, repl>>, <<Lower(orig), Lower(repl)>>,
      <<Upper(orig), Upper(repl)>>, <<Title(orig), Title(repl)>> }

\* list(set): every order of the elements is a possible result
Orderings(S) ==
    { q \in [1..Cardinality(S) -> S] : \A x \in S : \E i \in DOMAIN q : q[i] = x }

_case_variants(orig, repl) == Orderings(CaseVariantSet(orig, repl))

RECURSIVE AddAll(_, _, _)
AddAll(mapping, variants, i) ==
    IF i > Len(variants) THEN mapping
    ELSE AddAll(DictSet(mapping, variants[i][1], variants[i][2]), variants, i + 1)

\* The mappings parse_name_map can return: one per iteration order of the variant sets
RECURSIVE ParsePairs(_, _, _)
ParsePairs(pairs, i, mapping) ==
    IF i > Len(pairs) THEN {mapping}
    ELSE LET pair == Strip(pairs[i])
         IN  IF ~Contains(pair, "=") THEN ParsePairs(pairs, i + 1, mapping)
             ELSE LET sp   == SplitOnce(pair, "=")
                      orig == Strip(sp[1])
                      repl == Strip(sp[2])
                  IN  IF orig = <<>> THEN ParsePairs(pairs, i + 1, mapping)
                      ELSE UNION { ParsePairs(pairs, i + 1, AddAll(mapping, vs, 1)) :
                                       vs \in _case_variants(orig, repl) }

parse_name_map(map_str) == ParsePairs(SplitOn(map_str, ","), 1, <<>>)

-----------------------------------------------------------------------------
(* Fuzzy matcher *)

ThresholdNum == 3
ThresholdDen == 4

\* sum(1 for a, b in zip(x, y) if a == b)
RECURSIVE ZipMatches(_, _)
ZipMatches(x, y) ==
    IF x = <<>> \/ y = <<>> THEN 0
    ELSE (IF Head(x) = Head(y) THEN 1 ELSE 0) + ZipMatches(Tail(x), Tail(y))

\* the comparison with > in the place of >=
FuzzyRatioStrict(matches, shorter) == matches * ThresholdDen > ThresholdNum * shorter

FuzzyRatioOk(matches, shorter) == matches * ThresholdDen >= ThresholdNum * shorter

\* _fuzzy_match without the rule for targets of three characters or less
FuzzyMatchNoShortRule(ocr_word, target) ==
    IF ocr_word = <<>> \/ target = <<>> THEN FALSE
    ELSE IF Lower(ocr_word) = Lower(target) THEN TRUE
    ELSE IF Abs(Len(ocr_word) - Len(target)) > 2 THEN FALSE
    ELSE FuzzyRatioOk(ZipMatches(Lower(ocr_word), Lower(target)),
                      Min2(Len(ocr_word), Len(target)))

_fuzzy_match(ocr_word, target) ==
    IF ocr_word = <<>> \/ target = <<>> THEN FALSE
    ELSE IF Lower(ocr_word) = Lower(target) THEN TRUE
    ELSE IF Abs(Len(ocr_word) - Len(target)) > 2 THEN FALSE
    ELSE IF Len(target) <= 3 THEN FALSE
    ELSE FuzzyRatioOk(ZipMatches(Lower(ocr_word), Lower(target)),
                      Min2(Len(ocr_word), Len(target)))

-----------------------------------------------------------------------------
(* Inputs *)

MaxTokens == 3

sAlan     == <<"A","l","a","n">>
sWilliams == <<"W","i","l","l","i","a","m","s">>
sOf       == <<"o","f">>
sBlank    == <<" ">>
sSpace    == <<" ">>

\* Words the recognition engine can report, with the confidence it gives them
TokenPool ==
    { [text |-> sAlan,     conf |-> 85], [text |-> sAlan,     conf |-> -1],
      [text |-> sWilliams, conf |-> 0],  [text |-> sWilliams, conf |-> -1],
      [text |-> sOf,       conf |-> 85], [text |-> sOf,       conf |-> -1],
      [text |-> sBlank,    conf |-> -1] }

\* What is written on the image: up to MaxTokens words of the vocabulary
Scenes(pool) == UNION { [1..n -> pool] : n \in 0..MaxTokens }

Layouts == {"line", "wrap"}

\* Name maps (orig -> repl), in insertion order
nmFull ==
    << <<sAlan \o sSpace \o sWilliams, <<"B","o","b">> \o sSpace \o sWilliams>>,
       <<sWilliams, <<"X">>>> >>
\* a three-word term with the shorter string, a two-word term with the longer one
nmLong ==
    << << sOf \o sSpace \o sAlan \o sSpace \o <<"W","i","l","l","i","a">>, <<"Q","3">> >>,
       << sAlan \o sSpace \o sWilliams \o <<"x","x">>, <<"Q","2">> >> >>
\* terms of at most three characters
nmShort ==
    << << <<"o","r">>, <<"Y">> >>, << <<"o","f","f">>, <<"Z">> >>,
       << <<"O","F">>, <<"V">> >> >>
\* a two-word term that can match two windows sharing a token
nmRepeat ==
    << << sOf \o sSpace \o sOf, <<"B">> >>, << sOf, <<"X">> >> >>
\* a single-word term that matches fuzzily before one that matches exactly, and a
\* two-word term that is an extra-redact term as well
nmOrder ==
    << << sAlan \o <<"x">>, <<"P","1">> >>, << sAlan, <<"P","2">> >>,
       << sOf \o sSpace \o sAlan, <<"P","3">> >> >>
NameMaps == { <<>>, nmFull, nmLong, nmShort, nmRepeat, nmOrder }

exMixed == << <<"o","r">>, sWilliams, sOf \o sSpace \o sAlan >>
ExtraLists == { <<>>, exMixed }

-----------------------------------------------------------------------------
(* Token source *)

Scale == 2

\* Box of word i in the up-scaled image the engine reads.  "line": the words
\* follow each other on one line.  "wrap": the first word ends a line and the
\* other words follow each other on the next line, from its left end.
SceneBox(lay, i, text) ==
    IF lay = "line"
    THEN [left |-> 80 * (i - 1), top |-> 0,
          width |-> 8 * Len(text) + 1, height |-> 20]
    ELSE IF i = 1
    THEN [left |-> 80, top |-> 0, width |-> 8 * Len(text) + 1, height |-> 20]
    ELSE [left |-> 80 * (i - 2), top |-> 24,
          width |-> 8 * Len(text) + 1, height |-> 20]

\* pytesseract.image_to_data(..., output_type=DICT) on a scene
EngineData(scene, lay) ==
    [text   |-> [i \in 1..Len(scene) |-> scene[i].text],
     conf   |-> [i \in 1..Len(scene) |-> scene[i].conf],
     left   |-> [i \in 1..Len(scene) |-> SceneBox(lay, i, scene[i].text).left],
     top    |-> [i \in 1..Len(scene) |-> SceneBox(lay, i, scene[i].text).top],
     width  |-> [i \in 1..Len(scene) |-> SceneBox(lay, i, scene[i].text).width],
     height |-> [i \in 1..Len(scene) |-> SceneBox(lay, i, scene[i].text).height]]

Front(s) == IF s = <<>> THEN s ELSE SubSeq(s, 1, Len(s) - 1)

\* Outcomes of one recognition call: it raises, it reads every word, or it
\* misses the last word.  With the binary missing every call raises
\* TesseractNotFoundError.
Raise == [raised |-> TRUE]
CallOutcomes(eng, scene, lay) ==
    IF eng = "missing" THEN {Raise}
    ELSE {Raise, [raised |-> FALSE, data |-> EngineData(scene, lay)],
                 [raised |-> FALSE, data |-> EngineData(Front(scene), lay)]}

EmptyData ==
    [text |-> <<>>, conf |-> <<>>, left |-> <<>>, top |-> <<>>,
     width |-> <<>>, height |-> <<>>]

\* lines 218-221
WordCount(d) ==
    Cardinality({ i \in 1..Len(d.text) : Strip(d.text[i]) # <<>> /\ d.conf[i] > 0 })

\* lines 212-226: the loop over the configs; a raising call is skipped
RECURSIVE BestOf(_, _, _)
BestOf(outs, k, best) ==
    IF k > Len(outs) THEN best
    ELSE IF outs[k].raised THEN BestOf(outs, k + 1, best)
    ELSE IF WordCount(outs[k].data) > best.words
         THEN BestOf(outs, k + 1,
                     [none |-> FALSE, words |-> WordCount(outs[k].data),
                      data |-> outs[k].data])
         ELSE BestOf(outs, k + 1, best)

\* lines 232-235: int(v / scale)
Rescale(d) ==
    [d EXCEPT !.left   = [i \in DOMAIN d.left   |-> d.left[i]   \div Scale],
              !.top    = [i \in DOMAIN d.top    |-> d.top[i]    \div Scale],
              !.width  = [i \in DOMAIN d.width  |-> d.width[i]  \div Scale],
              !.height = [i \in DOMAIN d.height |-> d.height[i] \div Scale]]

\* _ocr_image: outs is the outcome of the call of each config, in order.
\* No exception leaves it: line 225 catches every Exception.
_ocr_image(outs) ==
    LET best == BestOf(outs, 1, [none |-> TRUE, words |-> 0, data |-> EmptyData])
    IN  [raised |-> FALSE,
         data   |-> IF best.none THEN EmptyData ELSE Rescale(best.data)]

-----------------------------------------------------------------------------
(* redact_image *)

\* line 263
RECURSIVE LcMapFrom(_, _, _)
LcMapFrom(nm, i, acc) ==
    IF i > Len(nm) THEN acc
    ELSE LcMapFrom(nm, i + 1, DictSet(acc, Lower(nm[i][1]), nm[i][2]))
BuildLcMap(nm) == LcMapFrom(nm, 1, <<>>)

\* line 266
BuildExtraLc(ex) == [i \in 1..Len(ex) |-> Lower(ex[i])]

\* sorted(..., key=len, reverse=True): stable, longest string first
\* the sort key as the number of words
SortKeyWordCount(s) == Len(Split(s))

SortKey(s) == Len(s)
RECURSIVE InsertSorted(_, _)
InsertSorted(sorted, s) ==
    IF sorted = <<>> THEN <<s>>
    ELSE IF SortKey(Head(sorted)) >= SortKey(s)
         THEN <<Head(sorted)>> \o InsertSorted(Tail(sorted), s)
         ELSE <<s>> \o sorted
RECURSIVE SortedFrom(_, _, _)
SortedFrom(keys, i, acc) ==
    IF i > Len(keys) THEN acc ELSE SortedFrom(keys, i + 1, InsertSorted(acc, keys[i]))
\* line 270
sorted_names(lcm) == SortedFrom([i \in 1..Len(lcm) |-> lcm[i][1]], 1, <<>>)

n_boxes == Len(data.text)

SeqMin(S) == CHOOSE m \in S : \A x \in S : m <= x
SeqMax(S) == CHOOSE m \in S : \A x \in S : m >= x

\* lines 297-302 and 374-379: the rectangle painted for a window of n words at first
SpanRect(first, n) ==
    LET last == first + n - 1
    IN  [x  |-> data.left[first],
         y  |-> SeqMin({ data.top[first + k] : k \in 0..(n - 1) }),
         x2 |-> data.left[last] + data.width[last],
         y2 |-> SeqMax({ data.top[first + k] + data.height[first + k] :
                             k \in 0..(n - 1) })]

DrawRectangle(im, r) == Append(im, [op |-> "rectangle", at |-> r, text |-> <<>>])
DrawText(im, x, y, s) ==
    Append(im, [op |-> "text", at |-> [x |-> x, y |-> y, x2 |-> x, y2 |-> y],
                text |-> s])

\* the window test without the look at used_indices
RECURSIVE FirstPassMatchedIgnoringUsed(_, _, _, _)
FirstPassMatchedIgnoringUsed(used, i, name_words, j) ==
    IF j > Len(name_words) THEN TRUE
    ELSE LET idx == i + j - 1
         IN  IF ~_fuzzy_match(Strip(data.text[idx]), name_words[j]) THEN FALSE
             ELSE IF data.conf[idx] < 0 THEN FALSE
             ELSE FirstPassMatchedIgnoringUsed(used, i, name_words, j + 1)

\* the window test without the look at the confidence
RECURSIVE FirstPassMatchedNoConf(_, _, _, _)
FirstPassMatchedNoConf(used, i, name_words, j) ==
    IF j > Len(name_words) THEN TRUE
    ELSE LET idx == i + j - 1
         IN  IF idx \in used THEN FALSE
             ELSE IF ~_fuzzy_match(Strip(data.text[idx]), name_words[j]) THEN FALSE
             ELSE FirstPassMatchedNoConf(used, i, name_words, j + 1)

\* the window test that rejects confidence 0 as well
RECURSIVE FirstPassMatchedPositiveConf(_, _, _, _)
FirstPassMatchedPositiveConf(used, i, name_words, j) ==
    IF j > Len(name_words) THEN TRUE
    ELSE LET idx == i + j - 1
         IN  IF idx \in used THEN FALSE
             ELSE IF ~_fuzzy_match(Strip(data.text[idx]), name_words[j]) THEN FALSE
             ELSE IF data.conf[idx] <= 0 THEN FALSE
             ELSE FirstPassMatchedPositiveConf(used, i, name_words, j + 1)

\* lines 280-292: does the window at i match name_words?
RECURSIVE FirstPassMatched(_, _, _, _)
FirstPassMatched(used, i, name_words, j) ==
    IF j > Len(name_words) THEN TRUE
    ELSE LET idx == i + j - 1
         IN  IF idx \in used THEN FALSE
             ELSE IF ~_fuzzy_match(Strip(data.text[idx]), name_words[j]) THEN FALSE
             ELSE IF data.conf[idx] < 0 THEN FALSE
             ELSE FirstPassMatched(used, i, name_words, j + 1)

\* lines 295-312
FirstPassRedact(st, i, name_lc, name_words) ==
    LET repl == Get(lc_map, name_lc)
        n    == Len(name_words)
        r    == SpanRect(i, n)
    IN  [used  |-> st.used \cup { i + k : k \in 0..(n - 1) },
         img   |-> DrawText(DrawRectangle(st.img, r), r.x + 2, r.y + 1, repl),
         count |-> st.count + 1,
         spans |-> Append(st.spans,
                          [pass |-> 1, start |-> i, len |-> n, term |-> name_lc,
                           repl |-> repl, rect |-> r])]

\* lines 276-312: the loop over the windows of one name
RECURSIVE FirstPassScan(_, _, _, _)
FirstPassScan(st, i, name_lc, name_words) ==
    IF i > n_boxes - Len(name_words) + 1 THEN st
    ELSE IF i \in st.used THEN FirstPassScan(st, i + 1, name_lc, name_words)
    ELSE IF ~FirstPassMatched(st.used, i, name_words, 1)
         THEN FirstPassScan(st, i + 1, name_lc, name_words)
         ELSE FirstPassScan(FirstPassRedact(st, i, name_lc, name_words),
                            i + 1, name_lc, name_words)

\* lines 272-312: the loop over sorted_names
RECURSIVE FirstPassNames(_, _, _)
FirstPassNames(st, names, k) ==
    IF k > Len(names) THEN st
    ELSE LET name_words == Split(names[k])
         IN  IF Len(name_words) < 2 THEN FirstPassNames(st, names, k + 1)
             ELSE FirstPassNames(FirstPassScan(st, 1, names[k], name_words),
                                 names, k + 1)

\* the search that prefers a target equal to the word over an earlier fuzzy match
RECURSIVE MatchNameMapExactFirst(_, _)
MatchNameMapExactFirst(w_lc, k) ==
    IF \E e \in 1..Len(lc_map) : lc_map[e][1] = w_lc
    THEN CHOOSE e \in 1..Len(lc_map) : lc_map[e][1] = w_lc
    ELSE IF k > Len(lc_map) THEN 0
    ELSE IF Contains(lc_map[k][1], " ") THEN MatchNameMapExactFirst(w_lc, k + 1)
    ELSE IF _fuzzy_match(w_lc, lc_map[k][1]) THEN k
    ELSE MatchNameMapExactFirst(w_lc, k + 1)

\* lines 324-329: index in lc_map of the first single-word target that matches, or 0
RECURSIVE MatchNameMap(_, _)
MatchNameMap(w_lc, k) ==
    IF k > Len(lc_map) THEN 0
    ELSE IF Contains(lc_map[k][1], " ") THEN MatchNameMap(w_lc, k + 1)
    ELSE IF _fuzzy_match(w_lc, lc_map[k][1]) THEN k
    ELSE MatchNameMap(w_lc, k + 1)

\* lines 333-337: index in extra_lc of the first single-word term that matches, or 0
RECURSIVE MatchExtra(_, _)
MatchExtra(w_lc, k) ==
    IF k > Len(extra_lc) THEN 0
    ELSE IF ~Contains(extra_lc[k], " ") /\ _fuzzy_match(w_lc, extra_lc[k]) THEN k
    ELSE MatchExtra(w_lc, k + 1)

\* lines 342-352
SecondPassRedact(st, i, term, matched_repl) ==
    LET r  == [x  |-> data.left[i], y |-> data.top[i],
               x2 |-> data.left[i] + data.width[i],
               y2 |-> data.top[i] + data.height[i]]
        im == DrawRectangle(st.img, r)
    IN  [used  |-> st.used \cup {i},
         img   |-> IF matched_repl # <<>>
                   THEN DrawText(im, r.x + 2, r.y + 1, matched_repl) ELSE im,
         count |-> st.count + 1,
         spans |-> Append(st.spans,
                          [pass |-> 2, start |-> i, len |-> 1, term |-> term,
                           repl |-> matched_repl, rect |-> r])]

\* the iteration without the "continue" of an unmatched token
SecondPassTokenNoContinue(st, i) ==
    IF i \in st.used THEN st
    ELSE LET w == Strip(data.text[i])
         IN  IF w = <<>> \/ data.conf[i] < 0 THEN st
             ELSE LET w_lc == Lower(w)
                      km   == MatchNameMap(w_lc, 1)
                  IN  IF km # 0
                      THEN SecondPassRedact(st, i, lc_map[km][1], lc_map[km][2])
                      ELSE SecondPassRedact(st, i, <<>>, <<>>)

\* lines 316-352: one iteration of the loop over the tokens
SecondPassToken(st, i) ==
    IF i \in st.used THEN st
    ELSE LET w == Strip(data.text[i])
         IN  IF w = <<>> \/ data.conf[i] < 0 THEN st
             ELSE LET w_lc == Lower(w)
                      km   == MatchNameMap(w_lc, 1)
                      ke   == IF km = 0 THEN MatchExtra(w_lc, 1) ELSE 0
                  IN  IF km # 0
                      THEN SecondPassRedact(st, i, lc_map[km][1], lc_map[km][2])
                      ELSE IF ke # 0
                      THEN SecondPassRedact(st, i, extra_lc[ke], <<>>)
                      ELSE st

\* the loop over the tokens from the last one to the first
RECURSIVE SecondPassDown(_, _)
SecondPassDown(st, i) ==
    IF i < 1 THEN st ELSE SecondPassDown(SecondPassToken(st, i), i - 1)
SecondPassScanReversed(st, i) == SecondPassDown(st, n_boxes)

\* lines 315-352: the loop over the tokens
RECURSIVE SecondPassScan(_, _)
SecondPassScan(st, i) ==
    IF i > n_boxes THEN st ELSE SecondPassScan(SecondPassToken(st, i), i + 1)

\* the window test of pass 3 with the confidence test of pass 1
RECURSIVE ThirdPassMatchedConfGate(_, _, _, _)
ThirdPassMatchedConfGate(used, i, term_words, j) ==
    IF j > Len(term_words) THEN TRUE
    ELSE LET idx == i + j - 1
         IN  IF idx \in used THEN FALSE
             ELSE IF ~_fuzzy_match(Strip(data.text[idx]), term_words[j]) THEN FALSE
             ELSE IF data.conf[idx] < 0 THEN FALSE
             ELSE ThirdPassMatchedConfGate(used, i, term_words, j + 1)

\* lines 362-371
RECURSIVE ThirdPassMatched(_, _, _, _)
ThirdPassMatched(used, i, term_words, j) ==
    IF j > Len(term_words) THEN TRUE
    ELSE LET idx == i + j - 1
         IN  IF idx \in used THEN FALSE
             ELSE IF ~_fuzzy_match(Strip(data.text[idx]), term_words[j]) THEN FALSE
             ELSE ThirdPassMatched(used, i, term_words, j + 1)

\* lines 374-385
ThirdPassRedact(st, i, term, term_words) ==
    LET n == Len(term_words)
        r == SpanRect(i, n)
    IN  [used  |-> st.used \cup { i + k : k \in 0..(n - 1) },
         img   |-> DrawRectangle(st.img, r),
         count |-> st.count + 1,
         spans |-> Append(st.spans,
                          [pass |-> 3, start |-> i, len |-> n, term |-> term,
                           repl |-> <<>>, rect |-> r])]

RECURSIVE ThirdPassScan(_, _, _, _)
ThirdPassScan(st, i, term, term_words) ==
    IF i > n_boxes - Len(term_words) + 1 THEN st
    ELSE IF i \in st.used THEN ThirdPassScan(st, i + 1, term, term_words)
    ELSE IF ~ThirdPassMatched(st.used, i, term_words, 1)
         THEN ThirdPassScan(st, i + 1, term, term_words)
         ELSE ThirdPassScan(ThirdPassRedact(st, i, term, term_words),
                            i + 1, term, term_words)

RECURSIVE ThirdPassTerms(_, _)
ThirdPassTerms(st, k) ==
    IF k > Len(extra_lc) THEN st
    ELSE LET term_words == Split(extra_lc[k])
         IN  IF Len(term_words) < 2 THEN ThirdPassTerms(st, k + 1)
             ELSE ThirdPassTerms(ThirdPassScan(st, 1, extra_lc[k], term_words), k + 1)

Local == [used |-> used_indices, img |-> img, count |-> count, spans |-> spans]

TesseractNotFoundMessage == "ERROR: Tesseract not found. Install with: brew install tesseract"

-----------------------------------------------------------------------------
(* Actions *)

InitCommon ==
    /\ extra_redact \in ExtraLists
    /\ engine \in {"ok", "missing"}
    /\ layout \in Layouts
    /\ pc = "ocr"
    /\ data = EmptyData
    /\ lc_map = <<>>
    /\ extra_lc = <<>>
    /\ used_indices = {}
    /\ count = 0
    /\ img = <<>>
    /\ spans = <<>>
    /\ stderr = <<>>
    /\ result = "none"
    /\ fm = [ocr_word |-> <<>>, target |-> <<>>, ret |-> "none"]

Init ==
    /\ name_map \in NameMaps
    /\ vocabulary = TokenPool
    /\ InitCommon

\* lines 250-266: the OCR call, its exception handler, and the set-up of the passes
OcrImage ==
    /\ pc = "ocr"
    /\ \E scene \in Scenes(vocabulary) :
       \E o6 \in CallOutcomes(engine, scene, layout) :
       \E o11 \in CallOutcomes(engine, scene, layout) :
          LET r == _ocr_image(<<o6, o11>>)
          IN  IF r.raised
              THEN /\ stderr' = Append(stderr, TesseractNotFoundMessage)
                   /\ result' = [img |-> img, count |-> 0]
                   /\ pc' = "done"
                   /\ UNCHANGED <<data, lc_map, extra_lc>>
              ELSE /\ data' = r.data
                   /\ lc_map' = BuildLcMap(name_map)
                   /\ extra_lc' = BuildExtraLc(extra_redact)
                   /\ pc' = "pass1"
                   /\ UNCHANGED <<stderr, result>>
    /\ UNCHANGED <<name_map, extra_redact, engine, layout, used_indices, count,
                   img, spans, vocabulary, fm>>

\* lines 268-312
FirstPass ==
    /\ pc = "pass1"
    /\ LET st == FirstPassNames(Local, sorted_names(lc_map), 1)
       IN  /\ used_indices' = st.used
           /\ img' = st.img
           /\ count' = st.count
           /\ spans' = st.spans
    /\ pc' = "pass2"
    /\ UNCHANGED <<name_map, extra_redact, engine, layout, data, lc_map, extra_lc,
                   stderr, result, vocabulary, fm>>

\* lines 314-352
SecondPass ==
    /\ pc = "pass2"
    /\ LET st == SecondPassScan(Local, 1)
       IN  /\ used_indices' = st.used
           /\ img' = st.img
           /\ count' = st.count
           /\ spans' = st.spans
    /\ pc' = "pass3"
    /\ UNCHANGED <<name_map, extra_redact, engine, layout, data, lc_map, extra_lc,
                   stderr, result, vocabulary, fm>>

\* lines 354-387
ThirdPass ==
    /\ pc = "pass3"
    /\ LET st == ThirdPassTerms(Local, 1)
       IN  /\ used_indices' = st.used
           /\ img' = st.img
           /\ count' = st.count
           /\ spans' = st.spans
           /\ result' = [img |-> st.img, count |-> st.count]
    /\ pc' = "done"
    /\ UNCHANGED <<name_map, extra_redact, engine, layout, data, lc_map, extra_lc,
                   stderr, vocabulary, fm>>

Next == OcrImage \/ FirstPass \/ SecondPass \/ ThirdPass

Spec == Init /\ [][Next]_vars

-----------------------------------------------------------------------------
(* The name map as parse_name_map builds it from the command line *)

sSpw == <<"S","p","w","i","l","l","i","a","m","s">>
sBob == <<"B","o","b">>

\* "Spwilliams=Bob", and the same with entries that are skipped
MapStrs ==
    { sSpw \o <<"=">> \o sBob,
      <<" ">> \o sSpw \o <<" ","="," ">> \o sBob \o <<",","=","x",",","j","u","n","k">> }

ParsePool ==
    { [text |-> Upper(sSpw), conf |-> 85], [text |-> sSpw, conf |-> 85],
      [text |-> Lower(sSpw), conf |-> 85], [text |-> sBob, conf |-> 85] }

InitParse ==
    /\ name_map \in UNION { parse_name_map(m) : m \in MapStrs }
    /\ vocabulary = ParsePool
    /\ InitCommon

SpecParse == InitParse /\ [][Next]_vars

-----------------------------------------------------------------------------
(* _fuzzy_match on its own *)

MaxStrLen == 5

StringsOver(alphabet) == UNION { [1..n -> alphabet] : n \in 1..MaxStrLen }

InitFuzzy ==
    /\ name_map = <<>>
    /\ extra_redact = <<>>
    /\ engine = "ok"
    /\ layout = "line"
    /\ vocabulary = {}
    /\ pc = "fuzzy"
    /\ data = EmptyData
    /\ lc_map = <<>>
    /\ extra_lc = <<>>
    /\ used_indices = {}
    /\ count = 0
    /\ img = <<>>
    /\ spans = <<>>
    /\ stderr = <<>>
    /\ result = "none"
    /\ \E o \in StringsOver({"a", "b", "B"}) : \E t \in StringsOver({"a", "B"}) :
          fm = [ocr_word |-> o, target |-> t, ret |-> "none"]

FuzzyMatchCall ==
    /\ pc = "fuzzy"
    /\ fm' = [fm EXCEPT !.ret = _fuzzy_match(fm.ocr_word, fm.target)]
    /\ pc' = "fuzzy_done"
    /\ UNCHANGED <<name_map, extra_redact, engine, layout, data, lc_map, extra_lc,
                   used_indices, count, img, spans, stderr, result, vocabulary>>

NextFuzzy == FuzzyMatchCall

SpecFuzzy == InitFuzzy /\ [][NextFuzzy]_vars

-----------------------------------------------------------------------------
(* Properties of redact_image *)

SpanIndices(sp) == sp.start..(sp.start + sp.len - 1)
Window(i, ws) == i..(i + Len(ws) - 1)
SpanIds == 1..Len(spans)

IsMultiWord(t) == Len(Split(t)) >= 2
IsSingleWord(t) == Len(Split(t)) = 1 /\ ~Contains(t, " ")
NameTerms == { lc_map[k][1] : k \in 1..Len(lc_map) }
ExtraTerms == { extra_lc[k] : k \in 1..Len(extra_lc) }

\* every token of the window at i fuzzy-matches its word of ws
TextsMatch(i, ws) ==
    /\ i >= 1
    /\ i + Len(ws) - 1 <= n_boxes
    /\ \A j \in 1..Len(ws) : _fuzzy_match(Strip(data.text[i + j - 1]), ws[j])

\* ... and has non-negative confidence
RunMatches(i, ws) ==
    /\ TextsMatch(i, ws)
    /\ \A j \in 1..Len(ws) : data.conf[i + j - 1] >= 0

\* C1: no token index belongs to more than one span: the index sets of the
\* spans of the three passes are pairwise disjoint.
Thm_C1_SpansDisjoint ==
    \A a, b \in SpanIds :
        a # b => SpanIndices(spans[a]) \cap SpanIndices(spans[b]) = {}

\* C1 witness: a finished run with a multi-word span and a single-word span, where
\* the single-word span's term also matches a token of the multi-word span.
Wit_C1_SpansDisjoint ==
    /\ pc = "done"
    /\ \E a, b \in SpanIds :
        /\ spans[a].pass = 1
        /\ spans[b].pass = 2
        /\ \E i \in SpanIndices(spans[a]) :
              _fuzzy_match(Strip(data.text[i]), spans[b].term)

\* the one span that covers the window at i of the words of term t, made for t
OneSpanFor(i, t) ==
    /\ Cardinality({ a \in SpanIds : Window(i, Split(t)) \subseteq SpanIndices(spans[a]) }) = 1
    /\ \E a \in SpanIds :
        /\ SpanIndices(spans[a]) = Window(i, Split(t))
        /\ spans[a].repl = Get(lc_map, t)
NoSingleIn(i, t, s) ==
    ~ \E b \in SpanIds :
        /\ spans[b].pass = 2
        /\ spans[b].term = s
        /\ spans[b].start \in Window(i, Split(t))
\* a span of pass 1, other than the one of t at i, holds a token of the window
ClaimedByOther(i, t) ==
    \E b \in SpanIds :
        /\ spans[b].pass = 1
        /\ ~(spans[b].start = i /\ spans[b].term = t)
        /\ SpanIndices(spans[b]) \cap Window(i, Split(t)) # {}

PairsC2 ==
    { <<t, s>> \in NameTerms \X NameTerms :
        /\ IsMultiWord(t)
        /\ IsSingleWord(s)
        /\ \E j \in 1..Len(Split(t)) : Split(t)[j] = s }

\* C2 as stated: with a multi-word term and a single-word term that is one of its
\* words in the name map, every run of non-negative-confidence tokens that matches
\* the multi-word term gets exactly one span, covering the run, with the multi-word
\* term's replacement, and the single-word term consumes no token of the run.
Orig_C2_MultiWordWins ==
    pc = "done" =>
        \A p \in PairsC2 : \A i \in 1..n_boxes :
            RunMatches(i, Split(p[1])) =>
                OneSpanFor(i, p[1]) /\ NoSingleIn(i, p[1], p[2])

\* C2 as amended: the same, unless a token of the run is held by another span of
\* pass 1 (a term tried earlier, or an earlier window of the same term).
Thm_C2_MultiWordWins ==
    pc = "done" =>
        \A p \in PairsC2 : \A i \in 1..n_boxes :
            RunMatches(i, Split(p[1])) =>
                \/ OneSpanFor(i, p[1]) /\ NoSingleIn(i, p[1], p[2])
                \/ ClaimedByOther(i, p[1])

\* C2 witness: a finished run where the run matches, no other span of pass 1
\* touches it, and its last token has confidence 0.
Wit_C2_MultiWordWins ==
    /\ pc = "done"
    /\ \E p \in PairsC2 : \E i \in 1..n_boxes :
        /\ RunMatches(i, Split(p[1]))
        /\ ~ClaimedByOther(i, p[1])
        /\ OneSpanFor(i, p[1])
        /\ _fuzzy_match(Strip(data.text[i + Len(Split(p[1])) - 1]), p[2])
        /\ data.conf[i + Len(Split(p[1])) - 1] = 0

\* C3: no token with confidence below 0 is in a span of pass 1 or of pass 2.
Thm_C3_NegativeConfNeverMatched ==
    \A a \in SpanIds :
        spans[a].pass \in {1, 2} =>
            \A i \in SpanIndices(spans[a]) : data.conf[i] >= 0

\* C3 witness: a finished run where the texts of a window equal the words of a
\* multi-word name term, one of its tokens has negative confidence and equals a
\* single-word name term as well, and no span touches the window.
Wit_C3_NegativeConfNeverMatched ==
    /\ pc = "done"
    /\ \E t \in NameTerms : \E i \in 1..n_boxes :
        /\ IsMultiWord(t)
        /\ i + Len(Split(t)) - 1 <= n_boxes
        /\ \A j \in 1..Len(Split(t)) :
              Lower(Strip(data.text[i + j - 1])) = Split(t)[j]
        /\ \E j \in 1..Len(Split(t)) :
              /\ data.conf[i + j - 1] < 0
              /\ Lower(Strip(data.text[i + j - 1])) \in NameTerms
        /\ \A a \in SpanIds : SpanIndices(spans[a]) \cap Window(i, Split(t)) = {}

\* C5: a token redacted in pass 2 for a term of three characters or less has a
\* text equal to the term ignoring case.
Thm_C5_ShortTermsExact ==
    \A a \in SpanIds :
        (spans[a].pass = 2 /\ Len(spans[a].term) <= 3) =>
            Lower(Strip(data.text[spans[a].start])) = Lower(spans[a].term)

\* C5 witness: a token redacted for a short term, after a short term that differs
\* from it in one character and a short term of another length were tried.
Wit_C5_ShortTermsExact ==
    /\ pc = "done"
    /\ \E a \in SpanIds :
        LET w == Lower(Strip(data.text[spans[a].start]))
            k == CHOOSE k \in 1..Len(lc_map) : lc_map[k][1] = spans[a].term
        IN  /\ spans[a].pass = 2
            /\ Len(spans[a].term) <= 3
            /\ spans[a].term \in NameTerms
            /\ \E k1 \in 1..(k - 1) :
                  /\ Len(lc_map[k1][1]) = Len(w)
                  /\ ZipMatches(w, lc_map[k1][1]) = Len(w) - 1
            /\ \E k2 \in 1..(k - 1) :
                  /\ Len(lc_map[k2][1]) <= 3
                  /\ Len(lc_map[k2][1]) # Len(w)

\* no window of tokens matches the words of any term
NoTokenMatches ==
    \A t \in NameTerms \cup ExtraTerms : \A i \in 1..n_boxes :
        ~(Split(t) # <<>> /\ TextsMatch(i, Split(t)))

Orig_C7_EngineMissingDiagnostic ==
    (pc = "done" /\ engine = "missing") =>
        /\ result = [img |-> <<>>, count |-> 0]
        /\ \E k \in 1..Len(stderr) : stderr[k] = TesseractNotFoundMessage

\* union of the boxes of the tokens of S
UnionBox(S) ==
    [x  |-> SeqMin({ data.left[i] : i \in S }),
     y  |-> SeqMin({ data.top[i] : i \in S }),
     x2 |-> SeqMax({ data.left[i] + data.width[i] : i \in S }),
     y2 |-> SeqMax({ data.top[i] + data.height[i] : i \in S })]

\* C10 as stated: the rectangle painted for a multi-token span is the union of the
\* boxes of its tokens.
Orig_C10_UnionBox ==
    \A a \in SpanIds :
        spans[a].len >= 2 => spans[a].rect = UnionBox(SpanIndices(spans[a]))

\* a window of pass 1 for term t at i
NameWindows(t) == { i \in 1..n_boxes : RunMatches(i, Split(t)) }
SharingWindows(t1, t2) ==
    { w \in NameWindows(t1) \X NameWindows(t2) :
        Window(w[1], Split(t1)) \cap Window(w[2], Split(t2)) # {} }
HasSpan(i, t) == \E a \in SpanIds : spans[a].start = i /\ spans[a].term = t /\ spans[a].pass = 1

\* C9 as stated: when two multi-word name terms match windows that share a token,
\* the term with more words yields the span.
Orig_C9_MoreWordsFirst ==
    pc = "done" =>
        \A t1, t2 \in NameTerms :
            (IsMultiWord(t1) /\ IsMultiWord(t2) /\ Len(Split(t1)) > Len(Split(t2))) =>
                \A w \in SharingWindows(t1, t2) : HasSpan(w[1], t1)

\* C9 as amended: the spans of pass 1 are made in descending order of the string
\* length of their terms, and when two multi-word name terms match windows that
\* share a token, the term with the longer string yields the span, unless a token
\* of its window is held by a pass-1 span of a term at least as long.
Thm_C9_LongerStringFirst ==
    /\ \A a, b \in SpanIds :
          (a < b /\ spans[a].pass = 1 /\ spans[b].pass = 1) =>
              Len(spans[a].term) >= Len(spans[b].term)
    /\ pc = "done" =>
        \A t1, t2 \in NameTerms :
            (IsMultiWord(t1) /\ IsMultiWord(t2) /\ Len(t1) > Len(t2)) =>
                \A w \in SharingWindows(t1, t2) :
                    \/ HasSpan(w[1], t1)
                    \/ \E b \in SpanIds :
                          /\ spans[b].pass = 1
                          /\ Len(spans[b].term) >= Len(t1)
                          /\ ~(spans[b].start = w[1] /\ spans[b].term = t1)
                          /\ SpanIndices(spans[b]) \cap Window(w[1], Split(t1)) # {}

\* C9 witness: a finished run where a two-word term with the longer string and a
\* three-word term match windows that share a token, and the two-word term has the span.
Wit_C9_LongerStringFirst ==
    /\ pc = "done"
    /\ \E t1, t2 \in NameTerms :
        /\ IsMultiWord(t1) /\ IsMultiWord(t2)
        /\ Len(t1) > Len(t2)
        /\ Len(Split(t1)) < Len(Split(t2))
        /\ \E w \in SharingWindows(t1, t2) : HasSpan(w[1], t1) /\ ~HasSpan(w[2], t2)

\* tokens of no span of pass 1 are the ones pass 2 looks at
InPassSpan(i, p) == \E a \in SpanIds : spans[a].pass = p /\ i \in SpanIndices(spans[a])
\* single-word name-map targets, by position in lc_map, that match the token at i
NameHits(i) ==
    { k \in 1..Len(lc_map) :
        /\ ~Contains(lc_map[k][1], " ")
        /\ _fuzzy_match(Lower(Strip(data.text[i])), lc_map[k][1]) }
ExtraHits(i) ==
    { k \in 1..Len(extra_lc) :
        /\ ~Contains(extra_lc[k], " ")
        /\ _fuzzy_match(Lower(Strip(data.text[i])), extra_lc[k]) }
First(S) == CHOOSE m \in S : \A x \in S : m <= x
SecondPassSpansAt(i) == { a \in SpanIds : spans[a].pass = 2 /\ spans[a].start = i }

\* C11: in pass 2 a token that pass 1 left unconsumed and that has non-negative
\* confidence is redacted with the alias of the first single-word name-map term,
\* in map order, that matches it; if none matches, with the empty string for the
\* first single-word extra-redact term that matches it; otherwise it is not
\* redacted in pass 2.
Thm_C11_NameMapBeforeExtra ==
    pc \in {"pass3", "done"} =>
        \A i \in 1..n_boxes :
            (~InPassSpan(i, 1) /\ data.conf[i] >= 0 /\ Strip(data.text[i]) # <<>>) =>
                IF NameHits(i) # {}
                THEN \E a \in SecondPassSpansAt(i) :
                        /\ spans[a].term = lc_map[First(NameHits(i))][1]
                        /\ spans[a].repl = lc_map[First(NameHits(i))][2]
                ELSE IF ExtraHits(i) # {}
                THEN \E a \in SecondPassSpansAt(i) :
                        /\ spans[a].term = extra_lc[First(ExtraHits(i))]
                        /\ spans[a].repl = <<>>
                ELSE SecondPassSpansAt(i) = {}

\* A finished run where one token is matched by a name-map term and by an
\* extra-redact term, and is redacted with the alias.
Wit_C11_NameAndExtra ==
    /\ pc = "done"
    /\ \E i \in 1..n_boxes : \E a \in SecondPassSpansAt(i) :
        /\ NameHits(i) # {}
        /\ ExtraHits(i) # {}
        /\ spans[a].repl # <<>>

\* C11 witness: a finished run where one token is matched by two name-map terms,
\* the first fuzzily and a later one exactly, and is redacted with the alias of the
\* first, and another token is matched by an extra-redact term only and is
\* redacted with the empty string.
Wit_C11_NameMapBeforeExtra ==
    /\ pc = "done"
    /\ \E i \in 1..n_boxes : \E a \in SecondPassSpansAt(i) :
        /\ Cardinality(NameHits(i)) >= 2
        /\ lc_map[First(NameHits(i))][1] # Lower(Strip(data.text[i]))
        /\ \E k \in NameHits(i) : lc_map[k][1] = Lower(Strip(data.text[i]))
        /\ spans[a].repl = lc_map[First(NameHits(i))][2]
    /\ \E i \in 1..n_boxes : \E a \in SecondPassSpansAt(i) :
        /\ NameHits(i) = {}
        /\ ExtraHits(i) # {}
        /\ spans[a].repl = <<>>

ThirdPassSpan(i, t) ==
    \E a \in SpanIds :
        spans[a].pass = 3 /\ spans[a].start = i /\ spans[a].term = t /\ spans[a].repl = <<>>
\* a span other than the pass-3 span of t at i holds a token of the window
WindowTaken(i, t) ==
    \E b \in SpanIds :
        /\ ~(spans[b].pass = 3 /\ spans[b].start = i /\ spans[b].term = t)
        /\ SpanIndices(spans[b]) \cap Window(i, Split(t)) # {}
SomeNegative(i, ws) == \E j \in 1..Len(ws) : data.conf[i + j - 1] < 0

\* C12: a window whose texts match the words of a multi-word extra-redact term,
\* whatever the confidence of its tokens, gets a span of pass 3 with the empty
\* replacement unless another span holds one of its tokens; a window with a token
\* of negative confidence gets no span of pass 1 for a multi-word name term.
Thm_C12_ThirdPassNoConfidenceGate ==
    pc = "done" =>
        /\ \A t \in ExtraTerms : \A i \in 1..n_boxes :
              (IsMultiWord(t) /\ TextsMatch(i, Split(t))) =>
                  ThirdPassSpan(i, t) \/ WindowTaken(i, t)
        /\ \A a \in SpanIds : spans[a].pass = 3 => spans[a].repl = <<>>
        /\ \A t \in NameTerms : \A i \in 1..n_boxes :
              (IsMultiWord(t) /\ TextsMatch(i, Split(t)) /\ SomeNegative(i, Split(t))) =>
                  ~HasSpan(i, t)

\* C12 witness: a finished run with a span of pass 3 on a window where every
\* token has negative confidence, the same window matching a multi-word name term
\* that got no span.
Wit_C12_ThirdPassNoConfidenceGate ==
    /\ pc = "done"
    /\ \E a \in SpanIds :
        /\ spans[a].pass = 3
        /\ \A i \in SpanIndices(spans[a]) : data.conf[i] < 0
        /\ \E t \in NameTerms :
              /\ IsMultiWord(t)
              /\ Split(t) = Split(spans[a].term)
              /\ TextsMatch(spans[a].start, Split(t))
              /\ ~HasSpan(spans[a].start, t)

\* C13 as stated: the spans are made in ascending order of their first token index.
Orig_C13_AscendingStart ==
    \A a, b \in SpanIds : a < b => spans[a].start < spans[b].start

\* the draw calls follow the spans: the rectangle of each span, in the order of the spans
Rectangles == SelectSeq(img, LAMBDA d : d.op = "rectangle")

\* C13 as amended: the spans are made pass by pass (pass 1, then 2, then 3); the
\* spans of pass 2 are in ascending order of token index, and within pass 1 or
\* pass 3 the spans of one term are in ascending order of first token index.  The
\* rectangles are painted in the same order.
Thm_C13_PassOrder ==
    /\ \A a, b \in SpanIds :
          a < b =>
              /\ spans[a].pass <= spans[b].pass
              /\ (spans[a].pass = spans[b].pass /\ spans[a].pass = 2) =>
                    spans[a].start < spans[b].start
              /\ (spans[a].pass = spans[b].pass /\ spans[a].term = spans[b].term) =>
                    spans[a].start < spans[b].start
    /\ Len(Rectangles) = Len(spans)
    /\ \A a \in SpanIds : Rectangles[a].at = spans[a].rect

\* C13 witness: a finished run where a span of pass 1 precedes a span of pass 2
\* that starts at a smaller token index.
Wit_C13_PassOrder ==
    /\ pc = "done"
    /\ \E a, b \in SpanIds :
        /\ a < b
        /\ spans[a].pass = 1
        /\ spans[b].pass = 2
        /\ spans[b].start < spans[a].start

-----------------------------------------------------------------------------
(* Properties of parse_name_map with redact_image *)

\* C4 as stated: with the name map parsed from "Spwilliams=Bob", the one token
\* "SPWILLIAMS" of confidence 85 gives exactly one span, with replacement "BOB".
Orig_C4_CaseMatchedReplacement ==
    (pc = "done" /\ data.text = <<Upper(sSpw)>> /\ data.conf = <<85>>) =>
        /\ Len(spans) = 1
        /\ spans[1].repl = Upper(sBob)

-----------------------------------------------------------------------------
(* Properties of _fuzzy_match *)

EqualIgnoringCase(o, t) ==
    Len(o) = Len(t) /\ \A i \in 1..Len(o) : LowerChar(o[i]) = LowerChar(t[i])
SamePositions(o, t) ==
    { i \in 1..Min2(Len(o), Len(t)) : LowerChar(o[i]) = LowerChar(t[i]) }

\* C8: for non-empty strings the matcher returns true exactly when the strings
\* are equal ignoring case, or their lengths differ by at most 2, the target has
\* more than 3 characters and at least 0.75 of the positions of the shorter
\* string hold the same character ignoring case; the call changes nothing else.
Thm_C8_FuzzyCharacterisation ==
    pc = "fuzzy_done" =>
        /\ fm.ret =
              (\/ EqualIgnoringCase(fm.ocr_word, fm.target)
               \/ /\ Len(fm.ocr_word) - Len(fm.target) \in -2..2
                  /\ Len(fm.target) > 3
                  /\ 100 * Cardinality(SamePositions(fm.ocr_word, fm.target))
                        >= 75 * Min2(Len(fm.ocr_word), Len(fm.target)))
        /\ img = <<>> /\ stderr = <<>> /\ spans = <<>> /\ count = 0
        /\ used_indices = {} /\ data = EmptyData /\ result = "none"

\* C8 witness: a call that returns true for strings of different lengths with
\* exactly three quarters of the positions equal.
Wit_C8_FuzzyCharacterisation ==
    /\ pc = "fuzzy_done"
    /\ fm.ret = TRUE
    /\ Len(fm.ocr_word) # Len(fm.target)
    /\ 4 * Cardinality(SamePositions(fm.ocr_word, fm.target))
          = 3 * Min2(Len(fm.ocr_word), Len(fm.target))

====
